---------------------------- MODULE Spec2Model ----------------------------
(***************************************************************************)
(* A model of manga_downloader.py: the retrying image download, the        *)
(* per-chapter download job, the pre-pass that counts images, the worker   *)
(* pool of run() and the sequential loop, over a small file system that    *)
(* persists from one run of the program to the next.                       *)
(***************************************************************************)
EXTENDS Naturals, Sequences, FiniteSets, TLC

\* ------------------------------------------------------------- bounds
NumChapters == 2
MaxImages == 2
MaxRuns == 2
MaxWorkersAnswer == 2

\* ------------------------------------------------- program constants
retry_count == 3
PoolCap == 10
PadWidth == 4

Min(a, b) == IF a < b THEN a ELSE b

\* ---------------------------------------------------- pure functions

\* Characters that sanitize_filename replaces.
InvalidChars == {"<", ">", ":", "\"", "/", "\\", "|", "?", "*"}

RECURSIVE LStrip(_)
LStrip(s) == IF s # <<>> /\ Head(s) = " " THEN LStrip(Tail(s)) ELSE s

RECURSIVE RStrip(_)
RStrip(s) == IF s # <<>> /\ s[Len(s)] = " " THEN RStrip(SubSeq(s, 1, Len(s) - 1)) ELSE s

Strip(s) == RStrip(LStrip(s))

\* re.sub(r'[<>:"/\\|?*]', '_', name).strip()
sanitize_filename(name) ==
    Strip([k \in 1..Len(name) |-> IF name[k] \in InvalidChars THEN "_" ELSE name[k]])

\* urlparse(url).path: the URL up to its query or fragment.  URLs are
\* written here from the path on (scheme and host carry no extension).
RECURSIVE UrlPath(_)
UrlPath(u) ==
    IF u = <<>> \/ Head(u) \in {"?", "#"} THEN <<>>
    ELSE <<Head(u)>> \o UrlPath(Tail(u))

LastIndexOf(s, ch) ==
    LET hits == {k \in 1..Len(s) : s[k] = ch}
    IN  IF hits = {} THEN 0 ELSE CHOOSE k \in hits : \A m \in hits : m <= k

\* os.path.splitext(path)[1]: from the last dot of the last path component,
\* unless only dots precede it in that component.
SplitExt(path) ==
    LET sep == LastIndexOf(path, "/")
        dot == LastIndexOf(path, ".")
    IN  IF dot > sep /\ \E k \in (sep + 1)..(dot - 1) : path[k] # "."
        THEN SubSeq(path, dot, Len(path))
        ELSE <<>>

Lower(ch) ==
    CASE ch = "P" -> "p"
      [] ch = "N" -> "n"
      [] ch = "G" -> "g"
      [] OTHER -> ch

\* os.path.splitext(path)[1][1:].lower()
get_file_extension(url) ==
    LET ext == SplitExt(UrlPath(url))
    IN  IF ext = <<>> THEN <<>>
        ELSE [k \in 1..(Len(ext) - 1) |-> Lower(ext[k + 1])]

RECURSIVE Digits(_)
Digits(n) == IF n < 10 THEN <<n>> ELSE Append(Digits(n \div 10), n % 10)

RECURSIVE ZeroPad(_, _)
ZeroPad(d, w) == IF Len(d) >= w THEN d ELSE ZeroPad(<<0>> \o d, w)

\* f"{i:04d}"
Fmt04d(i) == ZeroPad(Digits(i), PadWidth)

DefaultExt == <<"j", "p", "g">>

\* Mutant of ImageFileName: the extension is used as parsed, without 'jpg'.
ImageFileNameNoDefault(i, img_url) ==
    [stem |-> Fmt04d(i), ext |-> get_file_extension(img_url)]

\* ext = get_file_extension(img_url) or 'jpg';  f"{i:04d}.{ext}"
ImageFileName(i, img_url) ==
    LET e == get_file_extension(img_url)
    IN  [stem |-> Fmt04d(i), ext |-> IF e = <<>> THEN DefaultExt ELSE e]

\* ------------------------------------------------------------- inputs
Chapters == 1..NumChapters

\* Chapter titles as get_chapters delivers them: non-empty and stripped.
Titles == {<<"A", ":">>, <<"A", "?">>, <<"B">>}

UrlUpperQuery == <<"/", "a", ".", "P", "N", "G", "?", "v", ".", "x">>
UrlNoExt == <<"/", ".", "b">>

\* What get_chapter_images may return for a chapter page: the first n
\* images of a page whose URLs alternate between the two forms.
PageImages(n) == [k \in 1..n |-> IF k % 2 = 1 THEN UrlUpperQuery ELSE UrlNoExt]
ImageLists == {PageImages(n) : n \in 0..MaxImages}

\* The chapter lists get_chapters may deliver: distinct titles, of which two
\* sanitize to the same folder name.
ChapterLists ==
    {ch \in [1..NumChapters -> Titles] :
        /\ ch[1] = <<"A", ":">>
        /\ \A c, d \in 1..NumChapters : c # d => ch[c] # ch[d]}

Folders == {sanitize_filename(t) : t \in Titles}


\* -------------------------------------------------------------- state
VARIABLES
    answers,         \* the user's answers: create_cbz, clean_folders, max_workers
    chapters,        \* the chapter list: chapters[c] is the title of chapter c
    folders,         \* the manga folder: per chapter folder name, exists and files
    zips,            \* folder names whose <name>.zip exists
    cbzs,            \* folder names whose <name>.cbz exists
    run,             \* which execution of the program this is
    runPc,           \* where run() is
    exitStatus,      \* the process exit status "0" or "1", "none" while running
    total_images,    \* the pre-pass sum
    prepassNext,     \* the chapter the pre-pass queries next
    prepassLen,      \* the lengths of the lists the pre-pass got, in chapter order
    global_progress, \* self.global_progress: present (not None), total, n
    progress_lock,   \* 0 when free, else the chapter whose job holds it
    job,             \* per chapter: the state of its download_chapter call
    collected,       \* futures whose result() the as_completed loop has read
    pageFetched,     \* chapters whose page was requested during this run
    existedAtStart,  \* folder names that existed when this run started
    finishedBefore   \* chapters finished in an earlier run

vars == <<answers, chapters, folders, zips, cbzs, run, runPc, exitStatus,
          total_images, prepassNext, prepassLen, global_progress, progress_lock,
          job, collected, pageFetched, existedAtStart, finishedBefore>>

NoFolder == [exists |-> FALSE, files |-> {}]

JobInit ==
    [pc |-> "pending", images |-> <<>>, i |-> 0, fails |-> 0, attempts |-> 0,
     delays |-> 0, result |-> "none", local |-> 0, reqs |-> <<>>,
     written |-> <<>>, outcome |-> "none", skipped |-> FALSE, archive |-> "none"]

NoProgress == [present |-> FALSE, total |-> 0, n |-> 0]

Init ==
    /\ answers \in [create_cbz : BOOLEAN, clean_folders : BOOLEAN,
                    max_workers : 1..MaxWorkersAnswer]
    /\ chapters \in ChapterLists
    /\ folders = [f \in Folders |-> NoFolder]
    /\ zips = {}
    /\ cbzs = {}
    /\ run = 1
    /\ runPc = "start"
    /\ exitStatus = "none"
    /\ total_images = 0
    /\ prepassNext = 1
    /\ prepassLen = <<>>
    /\ global_progress = NoProgress
    /\ progress_lock = 0
    /\ job = [c \in Chapters |-> JobInit]
    /\ collected = {}
    /\ pageFetched = {}
    /\ existedAtStart = {}
    /\ finishedBefore = {}

\* max_workers = min(int(answers['max_workers']), 10)
max_workers == Min(answers.max_workers, PoolCap)

\* chapter_folder = os.path.join(output_path, sanitize_filename(chapter.title))
chapter_folder(c) == sanitize_filename(chapters[c])

single_download == max_workers = 1

Running == {c \in Chapters : job[c].pc \notin {"pending", "done"}}

\* ------------------------------------------------------- run(): setup

SetupOutcomes == {"ok", "output_dir", "page", "title", "manga_dir"}

\* create_directory(output_folder), parse_manga_page, get_manga_title,
\* create_directory(manga_folder): a failed create_directory makes run()
\* return, a page or title error calls sys.exit(1).
Setup ==
    /\ runPc = "start"
    /\ \E o \in SetupOutcomes :
        /\ runPc' = CASE o = "ok" -> "prepass"
                      [] o \in {"output_dir", "manga_dir"} -> "returned"
                      [] OTHER -> "exited"
        /\ exitStatus' = CASE o = "ok" -> "none"
                           [] o \in {"output_dir", "manga_dir"} -> "0"
                           [] OTHER -> "1"
    /\ UNCHANGED <<answers, chapters, folders, zips, cbzs, run, total_images,
                   prepassNext, prepassLen, global_progress, progress_lock, job,
                   collected, pageFetched, existedAtStart, finishedBefore>>

\* total_images = sum(len(self.get_chapter_images(ch.url)) for ch in chapters),
\* one chapter page per step, whatever max_workers is; after the last one
\* the pool (with its progress bar) or the sequential loop starts.
Prepass ==
    /\ runPc = "prepass"
    /\ \E imgs \in ImageLists :
        /\ total_images' = total_images + Len(imgs)
        /\ prepassLen' = Append(prepassLen, Len(imgs))
        /\ pageFetched' = pageFetched \cup {prepassNext}
        /\ IF prepassNext < NumChapters
           THEN /\ prepassNext' = prepassNext + 1
                /\ UNCHANGED <<runPc, global_progress>>
           ELSE /\ prepassNext' = prepassNext
                /\ IF max_workers > 1
                   THEN /\ runPc' = "pool"
                        /\ global_progress' =
                              [present |-> TRUE, total |-> total_images', n |-> 0]
                   ELSE /\ runPc' = "seq"
                        /\ UNCHANGED global_progress
    /\ UNCHANGED <<answers, chapters, folders, zips, cbzs, run, exitStatus,
                   progress_lock, job, collected, existedAtStart, finishedBefore>>

\* ------------------------------------------------ download_chapter

\* Mutant of CanStart: the sequential loop stops at the first failed chapter.
CanStartStopOnFailure(c) ==
    /\ job[c].pc = "pending"
    /\ \A d \in Chapters : d < c => job[d].pc # "pending"
    /\ \/ /\ runPc \in {"pool", "unwind", "interrupted"}
          /\ Cardinality(Running) < max_workers
       \/ /\ runPc = "seq"
          /\ \A d \in Chapters : d < c => job[d].pc = "done" /\ job[d].outcome = "True"

\* A worker thread of the pool takes the next submitted job (the pool's
\* queue is first in, first out) when fewer than max_workers jobs run; the
\* sequential loop calls download_chapter for the next chapter once the
\* previous call has returned.
CanStart(c) ==
    /\ job[c].pc = "pending"
    /\ \A d \in Chapters : d < c => job[d].pc # "pending"
    /\ \/ /\ runPc \in {"pool", "unwind", "interrupted"}
          /\ Cardinality(Running) < max_workers
       \/ /\ runPc = "seq"
          /\ \A d \in Chapters : d < c => job[d].pc = "done" /\ job[d].outcome # "raised"

Finish(j, out) == [j EXCEPT !.pc = "done", !.outcome = out]

JobVarsUnchanged ==
    UNCHANGED <<answers, chapters, run, runPc, exitStatus, total_images,
                prepassNext, prepassLen, collected, existedAtStart, finishedBefore>>

\* Mutant of StartJob: an existing folder without files is not skipped.
StartJobIfNonEmpty(c) ==
    /\ CanStart(c)
    /\ job' = [job EXCEPT ![c] =
                 IF folders[chapter_folder(c)].files # {}
                 THEN [Finish(@, "True") EXCEPT !.skipped = TRUE]
                 ELSE [@ EXCEPT !.pc = "get_images"]]
    /\ JobVarsUnchanged
    /\ UNCHANGED <<folders, zips, cbzs, global_progress, progress_lock, pageFetched>>

\* if os.path.exists(chapter_folder): return True
StartJob(c) ==
    /\ CanStart(c)
    /\ job' = [job EXCEPT ![c] =
                 IF folders[chapter_folder(c)].exists
                 THEN [Finish(@, "True") EXCEPT !.skipped = TRUE]
                 ELSE [@ EXCEPT !.pc = "get_images"]]
    /\ JobVarsUnchanged
    /\ UNCHANGED <<folders, zips, cbzs, global_progress, progress_lock, pageFetched>>

\* Mutant of GetChapterImages: the folder is created before the list is tested.
GetChapterImagesMkdirFirst(c) ==
    /\ job[c].pc = "get_images"
    /\ \E imgs \in ImageLists :
        job' = [job EXCEPT ![c] =
                  IF imgs = <<>> THEN Finish(@, "False")
                  ELSE [@ EXCEPT !.pc = "mkdir", !.images = imgs]]
    /\ pageFetched' = pageFetched \cup {c}
    /\ folders' = [folders EXCEPT ![chapter_folder(c)].exists = TRUE]
    /\ JobVarsUnchanged
    /\ UNCHANGED <<zips, cbzs, global_progress, progress_lock>>

\* images = self.get_chapter_images(chapter.url); if not images: return False
\* (an error while fetching or parsing the page yields the empty list)
GetChapterImages(c) ==
    /\ job[c].pc = "get_images"
    /\ \E imgs \in ImageLists :
        job' = [job EXCEPT ![c] =
                  IF imgs = <<>> THEN Finish(@, "False")
                  ELSE [@ EXCEPT !.pc = "mkdir", !.images = imgs]]
    /\ pageFetched' = pageFetched \cup {c}
    /\ JobVarsUnchanged
    /\ UNCHANGED <<folders, zips, cbzs, global_progress, progress_lock>>

\* os.makedirs(path, exist_ok=True)
MakeDirs(fs, f) == [fs EXCEPT ![f].exists = TRUE]

\* if not create_directory(chapter_folder): return False
CreateChapterDirectory(c) ==
    /\ job[c].pc = "mkdir"
    /\ \E ok \in BOOLEAN :
        IF ok
        THEN /\ folders' = MakeDirs(folders, chapter_folder(c))
             /\ job' = [job EXCEPT ![c].pc = "download"]
        ELSE /\ folders' = folders
             /\ job' = [job EXCEPT ![c] = Finish(@, "False")]
    /\ JobVarsUnchanged
    /\ UNCHANGED <<zips, cbzs, global_progress, progress_lock, pageFetched>>

\* ---------------------------------------------- download_with_retry

\* The except branch: on the last attempt report and return False, else
\* sleep delay_between_requests and return None.
AfterFailedAttempt(attempt, delays) ==
    IF attempt = retry_count - 1
    THEN [result |-> "False", attempts |-> attempt + 1, delays |-> delays, wrote |-> FALSE]
    ELSE [result |-> "None", attempts |-> attempt + 1, delays |-> delays + 1, wrote |-> FALSE]

\* for attempt in range(self.retry_count): the fetch fails with URLError or
\* HTTPError on the first `fails` attempts and then succeeds; writeOk tells
\* whether open()/write() of the file succeed (their OSError is not caught).
RECURSIVE RetryLoop(_, _, _, _)
RetryLoop(attempt, fails, writeOk, delays) ==
    IF attempt >= retry_count
    THEN [result |-> "None", attempts |-> attempt, delays |-> delays, wrote |-> FALSE]
    ELSE IF attempt < fails
         THEN AfterFailedAttempt(attempt, delays)
         ELSE IF writeOk
              THEN [result |-> "True", attempts |-> attempt + 1, delays |-> delays,
                    wrote |-> TRUE]
              ELSE [result |-> "raised", attempts |-> attempt + 1, delays |-> delays,
                    wrote |-> FALSE]

download_with_retry(fails, writeOk) == RetryLoop(0, fails, writeOk, 0)

AddFile(fs, f, name) == [fs EXCEPT ![f].files = @ \cup {name}]

\* self.download_with_retry(img_url, filename) for the image at position i.
\* A write that raises may leave the (incomplete) file behind.
DownloadImage(c) ==
    /\ job[c].pc = "download"
    /\ LET f == chapter_folder(c)
           i == job[c].i
           name == ImageFileName(i, job[c].images[i + 1])
       IN  \E fails \in 0..retry_count, writeOk \in BOOLEAN, partial \in BOOLEAN :
             /\ writeOk => folders[f].exists
             /\ partial => ~writeOk /\ fails = 0 /\ folders[f].exists
             /\ LET r == download_with_retry(fails, writeOk)
                IN  /\ job' = [job EXCEPT ![c] =
                                 [@ EXCEPT !.pc = "check", !.fails = fails,
                                           !.attempts = r.attempts,
                                           !.delays = r.delays,
                                           !.result = r.result,
                                           !.reqs = Append(@, i),
                                           !.written = IF r.wrote THEN Append(@, name)
                                                       ELSE @]]
                    /\ folders' = IF r.wrote \/ partial
                                  THEN AddFile(folders, f, name) ELSE folders
    /\ JobVarsUnchanged
    /\ UNCHANGED <<zips, cbzs, global_progress, progress_lock, pageFetched>>

\* if self.global_progress: None in sequential mode; in concurrent mode the
\* truth value of the tqdm bar, which tqdm defines as total > 0.
ProgressTruthy == global_progress.present /\ global_progress.total > 0

\* The end of one loop iteration: the next image, or the archive, or return True.
Advance(j) ==
    IF j.i + 1 < Len(j.images) THEN [j EXCEPT !.pc = "download", !.i = @ + 1]
    ELSE IF answers.create_cbz THEN [j EXCEPT !.pc = "cbz"]
    ELSE Finish(j, "True")

\* The locals of the returned download_with_retry call are gone.
Returned(j) == [j EXCEPT !.fails = 0, !.attempts = 0, !.delays = 0]

\* Mutant of AfterDownload: only an explicit False aborts the chapter.
AfterDownloadOnlyFalse(j) ==
    CASE j.result = "raised" -> Finish(Returned(j), "raised")
      [] j.result = "False" -> Finish(Returned(j), "False")
      [] OTHER -> IF ProgressTruthy THEN [Returned(j) EXCEPT !.pc = "lock"]
                  ELSE Advance(Returned(j))

\* What download_chapter does with download_with_retry's result.
AfterDownload(j) ==
    CASE j.result = "raised" -> Finish(Returned(j), "raised")
      [] j.result \in {"False", "None"} -> Finish(Returned(j), "False")
      [] OTHER -> IF ProgressTruthy THEN [Returned(j) EXCEPT !.pc = "lock"]
                  ELSE Advance(Returned(j))

\* if not self.download_with_retry(img_url, filename): return False
CheckResult(c) ==
    /\ job[c].pc = "check"
    /\ job' = [job EXCEPT ![c] = AfterDownload(@)]
    /\ JobVarsUnchanged
    /\ UNCHANGED <<folders, zips, cbzs, global_progress, progress_lock, pageFetched>>

LockFree == progress_lock = 0

\* with self.progress_lock: entered; update(1) reads the bar's n
AcquireLock(c) ==
    /\ job[c].pc = "lock"
    /\ LockFree
    /\ progress_lock' = c
    /\ job' = [job EXCEPT ![c] = [@ EXCEPT !.pc = "update", !.local = global_progress.n]]
    /\ JobVarsUnchanged
    /\ UNCHANGED <<folders, zips, cbzs, global_progress, pageFetched>>

\* update(1) stores n + 1; the with block releases the lock
UpdateProgress(c) ==
    /\ job[c].pc = "update"
    /\ global_progress' = [global_progress EXCEPT !.n = job[c].local + 1]
    /\ progress_lock' = 0
    /\ job' = [job EXCEPT ![c] = Advance([@ EXCEPT !.local = 0])]
    /\ JobVarsUnchanged
    /\ UNCHANGED <<folders, zips, cbzs, pageFetched>>

\* ----------------------------------------------- create_chapter_cbz

ArchiveFailures == {"none", "make_archive", "rename", "rmtree"}

\* Mutant of CbzsAfter: the .zip is never renamed to .cbz.
CbzsAfterNoRename(fail, f) == cbzs

\* The .cbz files after create_chapter_cbz: os.rename is reached when
\* make_archive succeeded, and makes <name>.cbz when it succeeds itself.
CbzsAfter(fail, f) ==
    IF fail \in {"make_archive", "rename"} THEN cbzs ELSE cbzs \cup {f}

\* Mutant of FoldersAfter: the folder is removed whenever clean is set, also
\* when make_archive or os.rename failed.
FoldersAfterCleanAlways(fail, f, left) ==
    CASE fail = "rmtree" -> [folders EXCEPT ![f].files = left]
      [] answers.clean_folders -> [folders EXCEPT ![f] = NoFolder]
      [] OTHER -> folders

\* The folders after create_chapter_cbz: shutil.rmtree is reached only when
\* clean is set and both make_archive and os.rename succeeded; when it
\* fails, the files in `left` are still there.
FoldersAfter(fail, f, left) ==
    CASE fail = "none" /\ answers.clean_folders -> [folders EXCEPT ![f] = NoFolder]
      [] fail = "rmtree" -> [folders EXCEPT ![f].files = left]
      [] OTHER -> folders

\* What became of the archive: made and cleaned up as asked ("ok"), not
\* made ("failed"), or made with the folder left behind ("unclean").
ArchiveResult(fail) ==
    CASE fail \in {"make_archive", "rename"} -> "failed"
      [] fail = "rmtree" -> "unclean"
      [] OTHER -> "ok"

\* shutil.make_archive, os.rename of .zip to .cbz, then shutil.rmtree when
\* clean is set; an OSError of any of the three is printed and swallowed,
\* and download_chapter returns True.  make_archive fails on a missing
\* folder; a failed rmtree may have removed some of the files.
CreateChapterCbz(c) ==
    /\ job[c].pc = "cbz"
    /\ LET f == chapter_folder(c)
       IN  \E fail \in ArchiveFailures :
             /\ ~folders[f].exists => fail = "make_archive"
             /\ fail = "rmtree" => answers.clean_folders
             /\ zips' = CASE fail = "make_archive" -> zips
                          [] fail = "rename" -> zips \cup {f}
                          [] OTHER -> zips \ {f}
             /\ cbzs' = CbzsAfter(fail, f)
             /\ \E left \in SUBSET folders[f].files :
                  /\ fail # "rmtree" => left = folders[f].files
                  /\ folders' = FoldersAfter(fail, f, left)
             /\ job' = [job EXCEPT ![c] =
                          [Finish(@, "True") EXCEPT !.archive = ArchiveResult(fail)]]
    /\ JobVarsUnchanged
    /\ UNCHANGED <<global_progress, progress_lock, pageFetched>>

\* ------------------------------------------- run(): pool and loop

RunVarsUnchanged ==
    UNCHANGED <<answers, chapters, folders, zips, cbzs, run, total_images,
                prepassNext, prepassLen, global_progress, progress_lock, job,
                pageFetched, existedAtStart, finishedBefore>>

\* Mutant of AfterResult: the first failed job ends the batch.
AfterResultFailFast(c) ==
    CASE job[c].outcome = "raised" -> "unwind"
      [] job[c].outcome = "False" -> "done"
      [] OTHER -> "pool"

\* What the as_completed loop does with a finished future: result() raises
\* the job's exception, which leaves the loop; a False result only prints.
AfterResult(c) == IF job[c].outcome = "raised" THEN "unwind" ELSE "pool"

\* for future in as_completed(futures): if not future.result(): print(...)
Collect(c) ==
    /\ runPc = "pool"
    /\ job[c].pc = "done"
    /\ c \notin collected
    /\ runPc' = AfterResult(c)
    /\ collected' = IF job[c].outcome = "raised" THEN collected ELSE collected \cup {c}
    /\ exitStatus' = exitStatus
    /\ RunVarsUnchanged

\* The exception leaves the with blocks: the executor's shutdown(wait=True)
\* waits for every submitted job, then run() raises and the process ends
\* with a traceback.
Unwind ==
    /\ runPc = "unwind"
    /\ \A c \in Chapters : job[c].pc = "done"
    /\ runPc' = "crashed"
    /\ exitStatus' = "1"
    /\ collected' = collected
    /\ RunVarsUnchanged

\* Sequential mode: an exception of download_chapter leaves the for loop.
SeqRaise ==
    /\ runPc = "seq"
    /\ \E c \in Chapters : job[c].pc = "done" /\ job[c].outcome = "raised"
    /\ runPc' = "crashed"
    /\ exitStatus' = "1"
    /\ collected' = collected
    /\ RunVarsUnchanged

AllCollected ==
    \/ runPc = "pool" /\ collected = Chapters
    \/ /\ runPc = "seq"
       /\ \A c \in Chapters : job[c].pc = "done" /\ job[c].outcome # "raised"

\* print("\nDownload completed!"); run() returns and the process exits 0
Complete ==
    /\ AllCollected
    /\ runPc' = "done"
    /\ exitStatus' = "0"
    /\ collected' = collected
    /\ RunVarsUnchanged

\* ----------------------------------------------------- Ctrl-C

\* KeyboardInterrupt is raised in the main thread.  During setup, the
\* pre-pass or the sequential loop it leaves run() at once (the chapter in
\* progress stays as it is) and __main__ exits with status 1.  Inside the
\* pool's with block it leaves the as_completed loop while the worker
\* threads go on.
Interrupt ==
    /\ runPc \in {"start", "prepass", "seq", "pool"}
    /\ runPc' = IF runPc = "pool" THEN "interrupted" ELSE "cancelled"
    /\ exitStatus' = IF runPc = "pool" THEN exitStatus ELSE "1"
    /\ collected' = collected
    /\ RunVarsUnchanged

\* The executor's __exit__ calls shutdown(wait=True), which joins the
\* worker threads once the queue of submitted jobs is drained; then
\* __main__ prints the cancel line and calls sys.exit(1).
Cancelled ==
    /\ runPc = "interrupted"
    /\ \A c \in Chapters : job[c].pc = "done"
    /\ runPc' = "cancelled"
    /\ exitStatus' = "1"
    /\ collected' = collected
    /\ RunVarsUnchanged

\* ------------------------------------------------ the next execution

Ended == runPc \in {"done", "crashed", "returned", "exited", "cancelled"}

\* A chapter this run downloaded completely (and archived, when asked to).
Finished(c) ==
    /\ job[c].outcome = "True"
    /\ ~job[c].skipped
    /\ answers.create_cbz => job[c].archive \in {"ok", "unclean"}

\* The program is started again with the same answers on the files the
\* earlier execution left.
NextRun ==
    /\ Ended
    /\ run < MaxRuns
    /\ run' = run + 1
    /\ runPc' = "start"
    /\ exitStatus' = "none"
    /\ total_images' = 0
    /\ prepassNext' = 1
    /\ prepassLen' = <<>>
    /\ global_progress' = NoProgress
    /\ progress_lock' = 0
    /\ job' = [c \in Chapters |-> JobInit]
    /\ collected' = {}
    /\ pageFetched' = {}
    /\ existedAtStart' = {f \in Folders : folders[f].exists}
    /\ finishedBefore' = finishedBefore \cup {c \in Chapters : Finished(c)}
    /\ UNCHANGED <<answers, chapters, folders, zips, cbzs>>

\* The threads that execute download_chapter are alive.
Alive == runPc \in {"seq", "pool", "unwind", "interrupted"}

JobStep(c) ==
    \/ StartJob(c)
    \/ GetChapterImages(c)
    \/ CreateChapterDirectory(c)
    \/ DownloadImage(c)
    \/ CheckResult(c)
    \/ AcquireLock(c)
    \/ UpdateProgress(c)
    \/ CreateChapterCbz(c)

Next ==
    \/ Setup
    \/ Prepass
    \/ Alive /\ \E c \in Chapters : JobStep(c)
    \/ \E c \in Chapters : Collect(c)
    \/ Unwind
    \/ SeqRaise
    \/ Complete
    \/ Interrupt
    \/ Cancelled
    \/ NextRun

Spec == Init /\ [][Next]_vars

\* ============================================================ claims

Concurrent == max_workers > 1

\* The call of download_with_retry of chapter c has just returned.
CallReturned(c) == job[c].pc = "check"

\* C1: a fetch that fails on its first k < retry_count attempts and succeeds
\* on attempt k+1 (the file being writable) makes download_with_retry report
\* success after exactly k+1 attempts and exactly k delays.
C1_SuccessAfterKFailures ==
    \A c \in Chapters :
        CallReturned(c) /\ job[c].fails < retry_count /\ job[c].result # "raised"
        => /\ job[c].result = "True"
           /\ job[c].attempts = job[c].fails + 1
           /\ job[c].delays = job[c].fails

\* C2: a fetch that fails on every attempt makes download_with_retry report
\* failure after exactly retry_count attempts and retry_count - 1 delays.
C2_FailureAfterMaxAttempts ==
    \A c \in Chapters :
        CallReturned(c) /\ job[c].fails = retry_count
        => /\ job[c].result = "False"
           /\ job[c].attempts = retry_count
           /\ job[c].delays = retry_count - 1

\* C3: in a second run, no chapter page and no image is requested for a
\* chapter whose folder existed when the run started.
C3_NoRequestOnRerun ==
    run > 1 =>
        \A c \in Chapters :
            chapter_folder(c) \in existedAtStart
            => c \notin pageFetched /\ job[c].reqs = <<>>

\* C4: in concurrent mode the batch prints its completion line only after
\* every job has returned, the run ends only after every job has run to its
\* own outcome, and a job that is next in the queue while a worker is idle
\* can start whatever the outcomes of the jobs that have ended.
C4_NoFailFast ==
    Concurrent =>
        /\ runPc = "done" =>
              \A c \in Chapters : job[c].pc = "done" /\ job[c].outcome \in {"True", "False"}
        /\ runPc \in {"done", "crashed"} =>
              \A c \in Chapters : job[c].pc = "done" /\ job[c].outcome # "none"
        /\ \A c \in Chapters :
              /\ runPc \in {"pool", "unwind"}
              /\ job[c].pc = "pending"
              /\ \A d \in Chapters : d < c => job[d].pc # "pending"
              /\ Cardinality({d \in Chapters : job[d].pc \notin {"pending", "done"}})
                    < max_workers
              => ENABLED StartJob(c)

\* C4 witness: a concurrent batch has printed its completion line with one
\* job failed and a sibling that downloaded its images and returned True.
C4_Witness ==
    /\ Concurrent
    /\ runPc = "done"
    /\ \E c, d \in Chapters :
          /\ job[c].outcome = "False"
          /\ job[d].outcome = "True" /\ ~job[d].skipped /\ job[d].written # <<>>

\* C5: no error escapes download_chapter, so no chapter-level error ends the
\* run abnormally.
C5_ErrorsContained ==
    /\ \A c \in Chapters : job[c].outcome # "raised"
    /\ runPc # "crashed"

RECURSIVE Downloaded(_)
Downloaded(n) == IF n = 0 THEN 0 ELSE Len(job[n].written) + Downloaded(n - 1)

\* C6: every increment happens under the lock, one holder at a time, and once
\* all jobs of a concurrent batch have completed the counter equals the
\* number of images downloaded successfully across all chapters.
C6_NoLostUpdates ==
    Concurrent =>
        /\ \A c \in Chapters : job[c].pc = "update" => progress_lock = c
        /\ (\A c \in Chapters : job[c].pc = "done")
              => global_progress.n = Downloaded(NumChapters)

\* C7: completed <= total in every state of a concurrent batch.
C7_CompletedAtMostTotal ==
    global_progress.present => global_progress.n <= global_progress.total

\* download_with_retry did not succeed for the image at position job[c].i.
ImageFailed(c) == job[c].result \in {"False", "None"}

\* No other job can touch the folder of chapter c while its job runs.
FolderUnshared(c) ==
    \/ ~Concurrent
    \/ \A d \in Chapters : d # c => chapter_folder(d) # chapter_folder(c)

Positions(n) == [k \in 1..n |-> k - 1]

Range(s) == {s[k] : k \in 1..Len(s)}

\* C8: when download_with_retry does not succeed for the image at position i,
\* download_chapter returns False at once: positions 0..i are the only ones
\* requested, no archive is made, and (no other job sharing the folder) the
\* folder stays on disk with the files written for the positions before i.
C8_ImageFailureAbortsChapter ==
    \A c \in Chapters :
        ImageFailed(c) =>
            /\ job[c].pc \in {"check", "done"}
            /\ job[c].pc = "done" => job[c].outcome = "False"
            /\ job[c].reqs = Positions(job[c].i + 1)
            /\ Len(job[c].written) = job[c].i
            /\ job[c].archive = "none"
            /\ FolderUnshared(c) =>
                  /\ folders[chapter_folder(c)].exists
                  /\ Range(job[c].written) \subseteq folders[chapter_folder(c)].files

\* C8 witness: one chapter was aborted at position 0 of a two-image list and
\* another at position 1, its first file on disk.
C8_Witness ==
    \E c, d \in Chapters :
        /\ ImageFailed(c) /\ job[c].pc = "done" /\ job[c].i = 0 /\ Len(job[c].images) = 2
        /\ ImageFailed(d) /\ job[d].pc = "done" /\ job[d].i = 1
        /\ job[d].written # <<>>
        /\ job[d].written[1] \in folders[chapter_folder(d)].files

\* The extension the two page URLs are to get.
ExpectedExt(url) == IF url = UrlUpperQuery THEN <<"p", "n", "g">> ELSE <<"j", "p", "g">>

RECURSIVE DigitsValue(_)
DigitsValue(d) ==
    IF d = <<>> THEN 0 ELSE 10 * DigitsValue(SubSeq(d, 1, Len(d) - 1)) + d[Len(d)]

Downloading(c) == job[c].outcome = "True" /\ ~job[c].skipped

\* C9: images are requested in list order, each only after the one before it
\* was written; the file of position i has the 4-digit zero-padded index i
\* and the URL's lower-case extension or jpg; a chapter that returns True
\* after downloading wrote exactly N distinct files, which are the content
\* of its folder when no other job shares it and no clean-up follows.
C9_FilesNamedInOrder ==
    \A c \in Chapters :
        /\ job[c].reqs = Positions(Len(job[c].reqs))
        /\ Len(job[c].written) <= Len(job[c].reqs)
        /\ Len(job[c].reqs) <= Len(job[c].written) + 1
        /\ \A k \in 1..Len(job[c].written) :
              /\ Len(job[c].written[k].stem) = 4
              /\ DigitsValue(job[c].written[k].stem) = k - 1
              /\ job[c].written[k].ext = ExpectedExt(job[c].images[k])
        /\ Downloading(c) =>
              /\ Len(job[c].written) = Len(job[c].images)
              /\ Cardinality(Range(job[c].written)) = Len(job[c].images)
              /\ FolderUnshared(c) /\ ~(answers.create_cbz /\ answers.clean_folders)
                    => folders[chapter_folder(c)] =
                          [exists |-> TRUE, files |-> Range(job[c].written)]

\* C9 witness: a chapter of two images, one URL with an upper-case extension
\* and a query and one without extension, returned True after downloading.
C9_Witness ==
    \E c \in Chapters :
        /\ Downloading(c)
        /\ job[c].pc = "done"
        /\ job[c].images = <<UrlUpperQuery, UrlNoExt>>

\* C10: no image of a chapter finished in an earlier run is requested again.
C10_NoRedownload ==
    \A c \in finishedBefore : job[c].reqs = <<>>


\* C11: the process exits with status 0 when the run completes and with a
\* non-zero status on a user interrupt and on every setup error: a folder
\* that cannot be created, a manga page that cannot be fetched, a title that
\* cannot be located.
C11_ExitStatus ==
    /\ runPc = "done" => exitStatus = "0"
    /\ runPc = "cancelled" => exitStatus = "1"
    /\ runPc \in {"returned", "exited"} => exitStatus = "1"

\* C12: once the interrupt has arrived in a concurrent batch, no job that
\* has not started yet is started.
C12_NoStartAfterInterrupt ==
    [][runPc = "interrupted" =>
          \A c \in Chapters : job[c].pc = "pending" => job'[c].pc = "pending"]_vars

\* The batch runs in the sequential loop (max_workers == 1).
Sequential == ~Concurrent

\* C13: in sequential mode at most one download_chapter call is in progress,
\* a chapter's call begins only after the calls of all earlier chapters have
\* returned, and the call of the next chapter can begin when the earlier
\* ones have returned, whether with True or with False.
C13_SequentialOrder ==
    Sequential =>
        /\ Cardinality({c \in Chapters : job[c].pc \notin {"pending", "done"}}) <= 1
        /\ \A c, d \in Chapters :
              job[c].pc # "pending" /\ d < c
              => job[d].pc = "done" /\ job[d].outcome \in {"True", "False"}
        /\ \A c \in Chapters :
              /\ runPc = "seq"
              /\ job[c].pc = "pending"
              /\ \A d \in Chapters :
                    d < c => job[d].pc = "done" /\ job[d].outcome \in {"True", "False"}
              => ENABLED StartJob(c)

\* C13 witness: the sequential loop has completed; the first chapter
\* returned False and the second one was downloaded after it.
C13_Witness ==
    /\ Sequential
    /\ runPc = "done"
    /\ job[1].outcome = "False"
    /\ Downloading(2)

\* The job of chapter c has created, or is writing into, its folder.
UsesFolder(c) ==
    job[c].pc \in {"download", "check", "lock", "update", "cbz"} \/ job[c].reqs # <<>>

\* C14: in concurrent mode no two jobs use the same chapter folder.
C14_WorkerIsolation ==
    Concurrent =>
        \A c, d \in Chapters :
            c # d /\ UsesFolder(c) /\ UsesFolder(d)
            => chapter_folder(c) # chapter_folder(d)

\* C15: a chapter whose archive could not be made has outcome False, and the
\* files it downloaded stay in its folder.
C15_ArchiveFailureFails ==
    \A c \in Chapters :
        job[c].archive = "failed" =>
            /\ job[c].outcome = "False"
            /\ FolderUnshared(c) =>
                  Range(job[c].written) \subseteq folders[chapter_folder(c)].files

\* Chapter c was downloaded and archived without a failure.
Archived(c) == Downloading(c) /\ job[c].archive = "ok"

\* Every chapter of this run was downloaded and archived without a failure,
\* or skipped for the folder of a chapter of this list that was.
AllArchived ==
    /\ answers.create_cbz
    /\ \A c \in Chapters :
          \/ Archived(c)
          \/ /\ job[c].skipped
             /\ \E d \in Chapters :
                   d # c /\ chapter_folder(d) = chapter_folder(c) /\ Archived(d)

\* C16: after a completed batch with create_cbz in which every chapter was
\* downloaded and archived, every chapter has its .cbz; with clean_folders
\* no chapter folder is left, without it every folder is there with the
\* chapter's files.
C16_EndToEndArchiving ==
    runPc = "done" /\ AllArchived =>
        \A c \in Chapters :
            /\ chapter_folder(c) \in cbzs
            /\ answers.clean_folders => ~folders[chapter_folder(c)].exists
            /\ ~answers.clean_folders =>
                  /\ folders[chapter_folder(c)].exists
                  /\ Range(job[c].written) \subseteq folders[chapter_folder(c)].files

\* C16 witness: such a batch has completed with clean_folders set.
C16_Witness ==
    /\ runPc = "done"
    /\ AllArchived
    /\ answers.clean_folders
    /\ \A c \in Chapters : Len(job[c].images) = MaxImages

\* C17: a download_chapter call that finds its folder present returns True
\* in that step and changes nothing else: no page or image request, no file
\* or archive created or removed, no change of the progress counter.
C17_SkipHasNoEffect ==
    [][\A c \in Chapters :
          /\ job[c].pc = "pending"
          /\ job'[c] # job[c]
          /\ folders[chapter_folder(c)].exists
          => /\ job'[c] = [JobInit EXCEPT !.pc = "done", !.outcome = "True",
                                          !.skipped = TRUE]
             /\ folders' = folders
             /\ zips' = zips
             /\ cbzs' = cbzs
             /\ global_progress' = global_progress
             /\ progress_lock' = progress_lock
             /\ pageFetched' = pageFetched]_vars

\* C17 witness: a second run has skipped a chapter whose folder an aborted
\* attempt left without any file.
C17_Witness ==
    \E c \in Chapters :
        /\ run = 2
        /\ job[c].skipped
        /\ folders[chapter_folder(c)] = [exists |-> TRUE, files |-> {}]

\* The job of chapter c got the empty image list.
EmptyList(c) == job[c].pc = "done" /\ job[c].outcome = "False" /\ job[c].images = <<>>

\* No other chapter of the list has the folder of chapter c.
FolderOwn(c) == \A d \in Chapters : d # c => chapter_folder(d) # chapter_folder(c)

\* C18: a job that got the empty image list has returned False without any
\* image request, file or archive, and its folder (which no other chapter
\* has) does not exist, so that the next run finds it missing.
C18_EmptyListFails ==
    \A c \in Chapters :
        EmptyList(c) =>
            /\ job[c].reqs = <<>>
            /\ job[c].written = <<>>
            /\ job[c].archive = "none"
            /\ FolderOwn(c) /\ chapter_folder(c) \notin existedAtStart
                  => folders[chapter_folder(c)] = NoFolder

\* C18 witness: the batch has completed; one chapter got the empty list and
\* another one, in a folder of its own, was downloaded.
C18_Witness ==
    /\ runPc = "done"
    /\ \E c, d \in Chapters :
          /\ EmptyList(c) /\ FolderOwn(c)
          /\ Downloading(d)

\* C19: a step that removes a chapter folder, or files of it, is taken only
\* with the folder's .cbz in place; a .cbz is never removed.
C19_RemovedOnlyAfterArchive ==
    [][/\ cbzs \subseteq cbzs'
       /\ \A f \in Folders :
             /\ folders[f].exists
             /\ ~folders'[f].exists \/ ~(folders[f].files \subseteq folders'[f].files)
             => f \in cbzs']_vars

\* C19 witness: a fully downloaded chapter was archived and its folder removed.
C19_Witness ==
    \E c \in Chapters :
        /\ Downloading(c)
        /\ job[c].archive = "ok"
        /\ answers.clean_folders
        /\ ~folders[chapter_folder(c)].exists
        /\ chapter_folder(c) \in cbzs

\* C20: when a concurrent batch has completed, no job failed and every job
\* that queried the extractor got a list as long as the pre-pass did, the
\* progress counter equals the total.
C20_ProgressReachesTotal ==
    /\ Concurrent
    /\ runPc = "done"
    /\ \A c \in Chapters :
          /\ job[c].outcome = "True"
          /\ ~job[c].skipped => Len(job[c].images) = prepassLen[c]
    => global_progress.n = global_progress.total

============================================================================
